---- MODULE Spec2Model ----
(***************************************************************************)
(* Model of index.py: the /predict handler and predict_disease_with_gemini *)
(* (the retry loop around requests.post, the traversal of the response     *)
(* envelope and json.loads of the inner text).                             *)
(*                                                                         *)
(* A Python str that holds a JSON document is modelled as the sequence of  *)
(* its lexical tokens; json.loads is a recursive-descent parser over that  *)
(* sequence.  JSON values are tagged records [t, v].                       *)
(***************************************************************************)
EXTENDS Integers, Sequences, FiniteSets, TLC

\* ---------------------------------------------------------------- bounds
NumRequests == 2
MaxListLen == 5

\* ------------------------------------------------------ program constants
max_retries == 3
InitialDelay == 1

Requests == 1 .. NumRequests

\* ------------------------------------------------------------ JSON values
JNull == [t |-> "null", v |-> <<>>]
JStr(s) == [t |-> "str", v |-> s]
JNum(n) == [t |-> "num", v |-> n]
JList(s) == [t |-> "list", v |-> s]
JObj(f) == [t |-> "obj", v |-> f]
EmptyDict == JObj([k \in {} |-> JNull])

\* An exception travelling up the expression instead of a value.
Raised(exc) == [t |-> "raise", v |-> <<exc>>]
IsRaise(x) == x.t = "raise"

\* dict.get(key, default); anything that is not a dict has no .get
dict_get(d, key, default) ==
    IF IsRaise(d) THEN d
    ELSE IF d.t = "obj"
         THEN (IF key \in DOMAIN d.v THEN d.v[key] ELSE default)
         ELSE Raised("AttributeError")

\* x[0]
index0(x) ==
    IF IsRaise(x) THEN x
    ELSE CASE x.t = "list" -> (IF Len(x.v) = 0 THEN Raised("IndexError") ELSE x.v[1])
           [] x.t = "str"  -> (IF Len(x.v) = 0 THEN Raised("IndexError") ELSE JStr(<<x.v[1]>>))
           [] x.t = "obj"  -> Raised("KeyError")
           [] OTHER        -> Raised("TypeError")

\* line 61: .get('candidates', [{}])[0].get('content', {}).get('parts', [{}])[0].get('text', '{}')
extract_text(envelope) ==
    dict_get(
      index0(
        dict_get(
          dict_get(
            index0(dict_get(envelope, "candidates", JList(<<EmptyDict>>))),
            "content", EmptyDict),
          "parts", JList(<<EmptyDict>>))),
      "text", JStr(<<"{", "}">>))

\* ------------------------------------------------------------- json.loads
Punct == {"{", "}", "[", "]", ":", ","}
NumLit == ("0" :> 0) @@ ("7" :> 7)
IsStringToken(tok) == tok \notin Punct /\ tok # "null" /\ tok \notin DOMAIN NumLit

ParseFail == [ok |-> FALSE, val |-> JNull, rest |-> <<>>]
ParseOk(val, rest) == [ok |-> TRUE, val |-> val, rest |-> rest]

RECURSIVE ParseValue(_), ParseMembers(_, _), ParseElements(_, _)

ParseValue(ts) ==
    IF ts = <<>> THEN ParseFail
    ELSE LET h == Head(ts)
             tl == Tail(ts)
         IN  CASE h = "{" -> (IF tl # <<>> /\ Head(tl) = "}"
                               THEN ParseOk(EmptyDict, Tail(tl))
                               ELSE ParseMembers(tl, [k \in {} |-> JNull]))
               [] h = "[" -> (IF tl # <<>> /\ Head(tl) = "]"
                               THEN ParseOk(JList(<<>>), Tail(tl))
                               ELSE ParseElements(tl, <<>>))
               [] h = "null" -> ParseOk(JNull, tl)
               [] h \in DOMAIN NumLit -> ParseOk(JNum(NumLit[h]), tl)
               [] h \in Punct \ {"{", "["} -> ParseFail
               [] OTHER -> ParseOk(JStr(<<h>>), tl)

\* after "{" or ",": key ":" value, then "," or "}".  A repeated key keeps
\* the last value.
ParseMembers(ts, acc) ==
    IF Len(ts) < 2 \/ ~IsStringToken(ts[1]) \/ ts[2] # ":" THEN ParseFail
    ELSE LET p == ParseValue(Tail(Tail(ts)))
         IN  IF ~p.ok \/ p.rest = <<>> THEN ParseFail
             ELSE LET acc2 == (ts[1] :> p.val) @@ acc
                  IN  CASE Head(p.rest) = "}" -> ParseOk(JObj(acc2), Tail(p.rest))
                        [] Head(p.rest) = "," -> ParseMembers(Tail(p.rest), acc2)
                        [] OTHER -> ParseFail

\* ParseElements building the list back to front
RECURSIVE ParseElementsReversed(_, _)
ParseElementsReversed(ts, acc) ==
    LET p == ParseValue(ts)
    IN  IF ~p.ok \/ p.rest = <<>> THEN ParseFail
        ELSE LET acc2 == <<p.val>> \o acc
             IN  CASE Head(p.rest) = "]" -> ParseOk(JList(acc2), Tail(p.rest))
                   [] Head(p.rest) = "," -> ParseElementsReversed(Tail(p.rest), acc2)
                   [] OTHER -> ParseFail

\* after "[" or ",": value, then "," or "]".
ParseElements(ts, acc) ==
    LET p == ParseValue(ts)
    IN  IF ~p.ok \/ p.rest = <<>> THEN ParseFail
        ELSE LET acc2 == Append(acc, p.val)
             IN  CASE Head(p.rest) = "]" -> ParseOk(JList(acc2), Tail(p.rest))
                   [] Head(p.rest) = "," -> ParseElements(Tail(p.rest), acc2)
                   [] OTHER -> ParseFail

\* line 62: json.loads(result_text)
json_loads(s) ==
    IF IsRaise(s) THEN s
    ELSE IF s.t # "str" THEN Raised("TypeError")
    ELSE LET p == ParseValue(s.v)
         IN  IF p.ok /\ p.rest = <<>> THEN p.val ELSE Raised("JSONDecodeError")

\* ------------------------------------------- what the remote API can send
\* The model's sample of DiagnosisResult payloads the generative model may
\* produce, and the token text of each.
Items == <<"Rest", "Hydrate", "Avoid cold exposure", "Warm fluids", "Steam inhalation">>
ItemList(n) == [i \in 1 .. n |-> Items[((i - 1) % Len(Items)) + 1]]

Diagnosis(disease, n, lang) ==
    [predicted_disease |-> disease, description |-> "A viral infection",
     precautions |-> ItemList(n), home_remedies |-> ItemList(n), language |-> lang]

CommonCold == Diagnosis("Common Cold", 3, "English")
Payloads ==
    { CommonCold,
      Diagnosis("No prediction", 0, "Hinglish"),
      Diagnosis("Flu", MaxListLen, "Hindi"),
      Diagnosis("Error", 3, "English") }

RECURSIVE JoinTokens(_)
JoinTokens(items) ==
    IF Len(items) = 0 THEN <<>>
    ELSE IF Len(items) = 1 THEN <<items[1]>>
    ELSE <<items[1], ",">> \o JoinTokens(Tail(items))

ListText(items) == <<"[">> \o JoinTokens(items) \o <<"]">>

\* the JSON document of a payload, as the API writes it into 'text'
DiagnosisText(d) ==
    <<"{", "predicted_disease", ":", d.predicted_disease, ",",
      "description", ":", d.description, ",", "precautions", ":">>
    \o ListText(d.precautions)
    \o <<",", "home_remedies", ":">> \o ListText(d.home_remedies)
    \o <<",", "language", ":", d.language, "}">>

\* the object that document denotes
StrList(items) == JList([i \in 1 .. Len(items) |-> JStr(<<items[i]>>)])
DiagnosisJson(d) ==
    JObj([predicted_disease |-> JStr(<<d.predicted_disease>>),
          description |-> JStr(<<d.description>>),
          precautions |-> StrList(d.precautions),
          home_remedies |-> StrList(d.home_remedies),
          language |-> JStr(<<d.language>>)])

ValidTexts == { DiagnosisText(d) : d \in Payloads }
ColdText == DiagnosisText(CommonCold)

\* inner texts that are not JSON documents
InvalidTexts ==
    { <<>>,
      <<"Sorry", "I", "cannot">>,
      SubSeq(ColdText, 1, Len(ColdText) - 1),
      Append(ColdText, "}"),
      <<"{", "predicted_disease", ":", "Flu", ",", "}">>,
      <<"[", "Rest", ",", "]">> }

\* inner texts that are JSON documents but no DiagnosisResult object
OtherTexts == { <<"[", "]">>, <<"null">>, <<"{", "}">> }

\* the envelope {candidates: [{content: {parts: [{text: <text>}]}}]}
Candidates(parts) ==
    JObj([candidates |-> JList(<<JObj([content |-> JObj([parts |-> parts])])>>)])
Envelope(text) == Candidates(JList(<<JObj([text |-> text])>>))

WellFormedEnvelopes == { Envelope(JStr(txt)) : txt \in ValidTexts \cup InvalidTexts \cup OtherTexts }

\* envelopes with a field missing, empty or of another type
OddEnvelopes ==
    { EmptyDict,
      JObj([candidates |-> JList(<<>>)]),
      JObj([candidates |-> JList(<<EmptyDict>>)]),
      JObj([candidates |-> JList(<<JObj([content |-> EmptyDict])>>)]),
      Candidates(JList(<<>>)),
      Candidates(JList(<<EmptyDict>>)),
      Envelope(JNum(7)),
      JList(<<>>) }

\* A response of the transport: exc is the exception requests.post raised
\* ("" when it returned), status the HTTP status, isjson whether the body is
\* a JSON document, body that document.
Response(exc, status, isjson, body) ==
    [exc |-> exc, status |-> status, isjson |-> isjson, body |-> body]
NoResponse == Response("", 0, FALSE, JNull)

FailedResponses ==
    { Response("ConnectionError", 0, FALSE, JNull),
      Response("Timeout", 0, FALSE, JNull),
      Response("", 503, FALSE, JNull) }
Responses ==
    FailedResponses
    \cup { Response("", 200, TRUE, b) : b \in WellFormedEnvelopes \cup OddEnvelopes }
    \cup { Response("", 200, FALSE, JNull),
           Response("", 300, TRUE, Envelope(JStr(ColdText))) }

\* the smaller sample used when several requests run side by side
FewResponses ==
    { Response("ConnectionError", 0, FALSE, JNull),
      Response("", 200, TRUE, Envelope(JStr(ColdText))),
      Response("", 200, TRUE, Envelope(JStr(<<"Sorry", "I", "cannot">>))),
      Response("", 200, TRUE, JObj([candidates |-> JList(<<>>)])) }

\* -------------------------------------------------------------- the state
Symptoms == {"fever and headache", "bukhar aur sar dard"}

VARIABLES
    pc,         \* per request: "idle", "call" (about to post), "sleep" (in the
                \* RequestException handler, before time.sleep), "done"
    symptoms,   \* request.json.get('symptoms')
    retries,    \* local retries
    delay,      \* local delay
    response,   \* what the last requests.post of the request produced
    ret,        \* what predict_disease_with_gemini returned or raised
    http,       \* the response of /predict
    log,        \* per request, its outbound posts and sleeps in order
    clients,    \* the requests that arrive in this run
    transport   \* the responses the remote API can give in this run

vars == <<pc, symptoms, retries, delay, response, ret, http, log, clients, transport>>

NoReturn == [t |-> "none", v |-> <<>>]
NoHttp == [status |-> 0, body |-> JNull]

\* log entries: a post with the exception or status it ended in, or a sleep
\* of d seconds
PostEvent(resp) ==
    [e |-> "post", d |-> 0, exc |-> resp.exc, status |-> resp.status, isjson |-> resp.isjson]
SleepEvent(d) ==
    [e |-> "sleep", d |-> d, exc |-> "", status |-> 0, isjson |-> FALSE]

\* the error dictionaries with the language left empty
ErrorDictNoLanguage(description) ==
    JObj([predicted_disease |-> JStr(<<"Error">>),
          description |-> JStr(<<description>>),
          precautions |-> JList(<<>>),
          home_remedies |-> JList(<<>>),
          language |-> JStr(<<"">>)])

\* lines 73 and 75: the two error dictionaries
ErrorDict(description) ==
    JObj([predicted_disease |-> JStr(<<"Error">>),
          description |-> JStr(<<description>>),
          precautions |-> JList(<<>>),
          home_remedies |-> JList(<<>>),
          language |-> JStr(<<"English">>)])
ParseErrorText == "Failed to parse API response. The model may have returned an invalid format."
ConnectErrorText == "Failed to connect to the prediction service after multiple retries."
ParseErrorDict == ErrorDict(ParseErrorText)
ConnectErrorDict == ErrorDict(ConnectErrorText)

\* line 59: Response.raise_for_status raises HTTPError for a 4xx or 5xx status
raise_for_status(resp) == 400 <= resp.status /\ resp.status < 600

\* the classes line 65 catches: ConnectionError, Timeout and HTTPError derive
\* from RequestException
RequestExceptions == {"ConnectionError", "Timeout", "HTTPError"}

\* lines 58-63 and the dispatch to the handlers of lines 65 and 71, for one
\* response.  Result: [kind |-> "retry"] when the RequestException handler is
\* entered, otherwise [kind |-> "exit", val |-> the value returned or the
\* exception that leaves the function].
\* A body that is no JSON document makes response.json() raise
\* requests.exceptions.JSONDecodeError, which derives from RequestException
\* and from json.JSONDecodeError; the handler of line 65 comes first and
\* takes it.
Retry == [kind |-> "retry", val |-> NoReturn]
Exit(val) == [kind |-> "exit", val |-> val]
\* the handler of line 71 taken for the retrying one
try_except_retry_parse(resp) ==
    IF resp.exc \in RequestExceptions THEN Retry
    ELSE IF raise_for_status(resp) THEN Retry
    ELSE IF ~resp.isjson THEN Retry
    ELSE LET parsed_json == json_loads(extract_text(resp.body))
         IN  IF parsed_json = Raised("JSONDecodeError") THEN Retry
             ELSE Exit(parsed_json)

try_except(resp) ==
    IF resp.exc \in RequestExceptions THEN Retry
    ELSE IF raise_for_status(resp) THEN Retry
    ELSE IF ~resp.isjson THEN Retry
    ELSE LET parsed_json == json_loads(extract_text(resp.body))
         IN  IF parsed_json = Raised("JSONDecodeError") THEN Exit(ParseErrorDict)
             ELSE Exit(parsed_json)

\* lines 265-266: jsonify(result), or the 500 of an exception that left the view
jsonify(result) ==
    IF IsRaise(result) THEN [status |-> 500, body |-> JNull]
    ELSE [status |-> 200, body |-> result]

\* retries as a module-level counter that every request's failure bumps
IncSharedRetries(rt, r) == [q \in DOMAIN rt |-> rt[q] + 1]

\* line 67: retries += 1, a local of the call of request r
IncRetries(rt, r) == [rt EXCEPT ![r] = @ + 1]

\* line 69: delay *= 2
NextDelay(d) == d * 2

\* the loop test off by one
LoopTestInclusive(n) == n <= max_retries

\* line 56: while retries < max_retries
LoopTest(n) == n < max_retries

Init ==
    /\ pc = [r \in Requests |-> "idle"]
    /\ symptoms = [r \in Requests |-> ""]
    /\ retries = [r \in Requests |-> 0]
    /\ delay = [r \in Requests |-> InitialDelay]
    /\ response = [r \in Requests |-> NoResponse]
    /\ ret = [r \in Requests |-> NoReturn]
    /\ http = [r \in Requests |-> NoHttp]
    /\ log = [r \in Requests |-> <<>>]
    /\ \/ clients = {1} /\ transport = Responses
       \/ clients = Requests /\ transport = FewResponses

\* lines 262-265, 52-56: /predict receives a request and enters the loop
Predict(r) ==
    /\ r \in clients
    /\ pc[r] = "idle"
    /\ \E s \in Symptoms : symptoms' = [symptoms EXCEPT ![r] = s]
    /\ retries' = [retries EXCEPT ![r] = 0]
    /\ delay' = [delay EXCEPT ![r] = InitialDelay]
    /\ pc' = [pc EXCEPT ![r] = IF LoopTest(0) THEN "call" ELSE "done"]
    /\ UNCHANGED <<response, ret, http, log, clients, transport>>

\* lines 57-67, 71-73: one pass through the try block
Attempt(r) ==
    /\ pc[r] = "call"
    /\ \E resp \in transport :
         LET out == try_except(resp)
         IN  /\ response' = [response EXCEPT ![r] = resp]
             /\ log' = [log EXCEPT ![r] = Append(@, PostEvent(resp))]
             /\ IF out.kind = "retry"
                THEN /\ retries' = IncRetries(retries, r)
                     /\ pc' = [pc EXCEPT ![r] = "sleep"]
                     /\ UNCHANGED <<ret, http>>
                ELSE /\ ret' = [ret EXCEPT ![r] = out.val]
                     /\ http' = [http EXCEPT ![r] = jsonify(out.val)]
                     /\ pc' = [pc EXCEPT ![r] = "done"]
                     /\ UNCHANGED retries
    /\ UNCHANGED <<symptoms, delay, clients, transport>>

\* lines 68-69, then the loop test of line 56 and, when it fails, line 75
Sleep(r) ==
    /\ pc[r] = "sleep"
    /\ log' = [log EXCEPT ![r] = Append(@, SleepEvent(delay[r]))]
    /\ delay' = [delay EXCEPT ![r] = NextDelay(@)]
    /\ IF LoopTest(retries[r])
       THEN /\ pc' = [pc EXCEPT ![r] = "call"]
            /\ UNCHANGED <<ret, http>>
       ELSE /\ pc' = [pc EXCEPT ![r] = "done"]
            /\ ret' = [ret EXCEPT ![r] = ConnectErrorDict]
            /\ http' = [http EXCEPT ![r] = jsonify(ConnectErrorDict)]
    /\ UNCHANGED <<symptoms, retries, response, clients, transport>>

Next == \E r \in Requests : Predict(r) \/ Attempt(r) \/ Sleep(r)

Spec == Init /\ [][Next]_vars

TypeOK ==
    /\ pc \in [Requests -> {"idle", "call", "sleep", "done"}]
    /\ \A r \in Requests : retries[r] \in 0 .. max_retries

\* ----------------------------------------------- vocabulary of the claims
Done(r) == pc[r] = "done"
Posts(r) == Cardinality({i \in 1 .. Len(log[r]) : log[r][i].e = "post"})
Sleeps(r) == Cardinality({i \in 1 .. Len(log[r]) : log[r][i].e = "sleep"})
LastEvent(r) == log[r][Len(log[r])]

Is2xx(status) == 200 <= status /\ status < 300
Is4xx5xx(status) == 400 <= status /\ status < 600

\* the request's i-th log entry is a post that ended in a connection error,
\* a timeout or a 4xx/5xx status
FailedPost(ev) == ev.e = "post" /\ (ev.exc \in {"ConnectionError", "Timeout"} \/ Is4xx5xx(ev.status))
\* ... or, in the words of the specification, in any status outside 2xx
NonOkPost(ev) == ev.e = "post" /\ (ev.exc \in {"ConnectionError", "Timeout"} \/ ~Is2xx(ev.status))

HasField(x, k) == x.t = "obj" /\ k \in DOMAIN x.v
FieldIs(x, k, val) == HasField(x, k) /\ x.v[k] = val
IsErrorResult(x) == FieldIs(x, "predicted_disease", JStr(<<"Error">>))
FiveFields == {"predicted_disease", "description", "precautions", "home_remedies", "language"}

\* the last response of r is a 2xx whose body is a JSON document
Got2xxJson(r) ==
    /\ Posts(r) > 0
    /\ response[r].exc = "" /\ Is2xx(response[r].status) /\ response[r].isjson

\* the inner text of the last response, when the envelope has one
InnerText(r) == extract_text(response[r].body)
HasInnerText(r) == Got2xxJson(r) /\ InnerText(r).t = "str"
ValidInnerText(r) ==
    /\ HasInnerText(r)
    /\ LET p == ParseValue(InnerText(r).v) IN p.ok /\ p.rest = <<>>

\* ------------------------------------------------------------------ C1
\* C1: the call never raises to its caller, and whenever it did not obtain
\* a valid payload (a 2xx response whose inner text is a JSON document) the
\* value it returns has predicted_disease = "Error".
C1_NeverRaises ==
    \A r \in Requests :
        Done(r) => /\ ~IsRaise(ret[r])
                   /\ (~ValidInnerText(r) => IsErrorResult(ret[r]))

\* ------------------------------------------------------------------ C2
\* C2 as stated: if every attempt ended in a connection error, a timeout or
\* a status outside 2xx, the call made exactly 3 attempts and returned the
\* connection sentinel with empty lists.
ConnectSentinel(x) ==
    /\ IsErrorResult(x)
    /\ FieldIs(x, "description", JStr(<<ConnectErrorText>>))
    /\ FieldIs(x, "precautions", JList(<<>>))
    /\ FieldIs(x, "home_remedies", JList(<<>>))

C2_NonOkExhausts ==
    \A r \in Requests :
        (Done(r) /\ \A i \in 1 .. Len(log[r]) : log[r][i].e = "post" => NonOkPost(log[r][i]))
            => (Posts(r) = 3 /\ ConnectSentinel(ret[r]))

\* C2 amended: if every attempt ended in a connection error, a timeout or a
\* 4xx/5xx status, the call made exactly 3 attempts and returned the
\* connection sentinel with empty lists.
C2_FailuresExhaust ==
    \A r \in Requests :
        (Done(r) /\ \A i \in 1 .. Len(log[r]) : log[r][i].e = "post" => FailedPost(log[r][i]))
            => (Posts(r) = 3 /\ ConnectSentinel(ret[r]))

C2_Witness ==
    \E r \in Requests :
        /\ Done(r) /\ Posts(r) = 3
        /\ \A i \in 1 .. Len(log[r]) : log[r][i].e = "post" => FailedPost(log[r][i])
        /\ \E i \in 1 .. Len(log[r]) : log[r][i].status = 503
        /\ \E i \in 1 .. Len(log[r]) : log[r][i].exc = "Timeout"

\* ------------------------------------------------------------------ C3
\* C3: when the first k attempts (k in 0..2) failed at transport level and
\* attempt k+1 got a 2xx response with a well-formed envelope whose inner
\* text is the document of a DiagnosisResult d, that attempt is the last
\* one (k+1 attempts in all) and the call returned exactly the object d,
\* every field and list element as in the document.
EarlierPostsFailed(r) ==
    \A i \in 1 .. Len(log[r]) - 1 : log[r][i].e = "post" => FailedPost(log[r][i])

C3_PassThrough ==
    \A r \in Requests : \A d \in Payloads :
        (/\ Got2xxJson(r)
         /\ response[r].body = Envelope(JStr(DiagnosisText(d)))
         /\ EarlierPostsFailed(r))
            => /\ Done(r)
               /\ LastEvent(r).e = "post"
               /\ Posts(r) = retries[r] + 1
               /\ Posts(r) \in 1 .. 3
               /\ ret[r] = DiagnosisJson(d)

C3_Witness ==
    \E r \in Requests :
        /\ Done(r) /\ Posts(r) = 3 /\ Sleeps(r) = 2
        /\ EarlierPostsFailed(r)
        /\ response[r] = Response("", 200, TRUE, Envelope(JStr(ColdText)))
        /\ ret[r] = DiagnosisJson(CommonCold)
        /\ Len(ret[r].v["precautions"].v) = 3

\* ------------------------------------------------------------------ C4
\* C4: when an attempt got a 2xx response with a readable envelope whose
\* inner text is not a JSON document, that attempt is the last one, whatever
\* came before it, it used up no retry, and the call returned the sentinel
\* with predicted_disease = "Error" and the parse-failure description.
C4_ParseFailureFinal ==
    \A r \in Requests :
        (HasInnerText(r) /\ ~ValidInnerText(r))
            => /\ Done(r)
               /\ LastEvent(r).e = "post"
               /\ Posts(r) = retries[r] + 1
               /\ IsErrorResult(ret[r])
               /\ FieldIs(ret[r], "description", JStr(<<ParseErrorText>>))

C4_Witness ==
    \E r \in Requests :
        /\ HasInnerText(r) /\ ~ValidInnerText(r)
        /\ Done(r) /\ Posts(r) = 1 /\ log[r] = <<PostEvent(response[r])>>
        /\ ret[r] = ParseErrorDict

\* ------------------------------------------------------------------ C5
\* C5: when the envelope of a 2xx response lacks an expected field (no
\* candidates or an empty list of them, no content, no parts or an empty
\* list of them, no text), the call returns the parse-failure sentinel.
FieldMissingEnvelopes ==
    { EmptyDict,
      JObj([candidates |-> JList(<<>>)]),
      JObj([candidates |-> JList(<<EmptyDict>>)]),
      JObj([candidates |-> JList(<<JObj([content |-> EmptyDict])>>)]),
      Candidates(JList(<<>>)),
      Candidates(JList(<<EmptyDict>>)) }

C5_MissingFieldIsParseError ==
    \A r \in Requests :
        (Done(r) /\ Got2xxJson(r) /\ response[r].body \in FieldMissingEnvelopes)
            => /\ IsErrorResult(ret[r])
               /\ FieldIs(ret[r], "description", JStr(<<ParseErrorText>>))

\* ------------------------------------------------------------------ C6
\* C6: for a non-empty symptom string, a value the call returns has the fields of
\* a DiagnosisResult and either predicted_disease # "Error" and both lists
\* have 0 to 4 entries, or predicted_disease = "Error" and both are empty.
IsListUpTo(x, k, n) == HasField(x, k) /\ x.v[k].t = "list" /\ Len(x.v[k].v) <= n

C6_ResultShape ==
    \A r \in Requests :
        (Done(r) /\ ~IsRaise(ret[r]) /\ symptoms[r] # "")
            => /\ HasField(ret[r], "predicted_disease")
               /\ IF IsErrorResult(ret[r])
                  THEN IsListUpTo(ret[r], "precautions", 0) /\ IsListUpTo(ret[r], "home_remedies", 0)
                  ELSE IsListUpTo(ret[r], "precautions", 4) /\ IsListUpTo(ret[r], "home_remedies", 4)

\* ------------------------------------------------------------------ C7
\* C7: every /predict request is answered with status 200 and a JSON object
\* with exactly the five DiagnosisResult fields.
C7_Always200FiveFields ==
    \A r \in Requests :
        Done(r) => /\ http[r].status = 200
                   /\ http[r].body.t = "obj"
                   /\ DOMAIN http[r].body.v = FiveFields

\* ------------------------------------------------------------------ C8
\* the call ended on an error path: retries exhausted, or inner text that is
\* not a JSON document
OnErrorPath(r) ==
    /\ Done(r)
    /\ \/ LastEvent(r).e = "sleep"
       \/ HasInnerText(r) /\ ~ValidInnerText(r)

\* C8 as stated: on every error path the sentinel's language field is the
\* empty string or absent.
C8_LanguageEmptyOnError ==
    \A r \in Requests :
        OnErrorPath(r)
            => \/ ~HasField(ret[r], "language")
               \/ ret[r].v["language"] \in {JStr(<<>>), JStr(<<"">>)}

\* C8 amended: on every error path the sentinel carries all five fields and
\* its language field is "English".
C8_LanguageEnglishOnError ==
    \A r \in Requests :
        OnErrorPath(r)
            => /\ IsErrorResult(ret[r])
               /\ DOMAIN ret[r].v = FiveFields
               /\ ret[r].v["language"] = JStr(<<"English">>)

C8_Witness ==
    \E r \in Requests :
        /\ OnErrorPath(r) /\ LastEvent(r).e = "sleep" /\ Posts(r) = 3
        /\ ret[r].v["language"] = JStr(<<"English">>)

\* ------------------------------------------------------------------ C9
\* C9: the k-th wait of a call lasts 2^(k-1) time units (1 before the 2nd
\* attempt, 2 before the 3rd), and no wait is the last thing a finished call
\* did: every wait is followed by another attempt.
C9_BackoffOnlyBeforeRetry ==
    \A r \in Requests :
        /\ \A i \in 1 .. Len(log[r]) :
               log[r][i].e = "sleep" =>
                   log[r][i].d = 2 ^ (Cardinality({j \in 1 .. i : log[r][j].e = "sleep"}) - 1)
        /\ Done(r) => LastEvent(r).e # "sleep"

\* ------------------------------------------------------------------ C10
\* the result the request's own last response and sleeps account for
OwnResult(r) ==
    IF LastEvent(r).e = "sleep" THEN ConnectErrorDict
    ELSE try_except(response[r]).val

\* C10: with requests running side by side, each request's retry counter,
\* delay and result are those its own posts and sleeps account for, and no
\* request posts more than 3 times.
C10_RequestsIndependent ==
    \A r \in Requests :
        /\ Posts(r) <= 3
        /\ retries[r] = Posts(r) - (IF Done(r) /\ LastEvent(r).e = "post" THEN 1 ELSE 0)
        /\ delay[r] = InitialDelay * 2 ^ Sleeps(r)
        /\ Sleeps(r) \in {retries[r], retries[r] - 1}
        /\ Done(r) => ret[r] = OwnResult(r)
        /\ ~Done(r) => ret[r] = NoReturn

C10_Witness ==
    \E r1, r2 \in Requests :
        /\ r1 # r2
        /\ pc[r1] = "sleep" /\ retries[r1] = 2 /\ delay[r1] = 2
        /\ pc[r2] = "call" /\ retries[r2] = 1 /\ delay[r2] = 2
====
